---- MODULE Spec2Model ----
(***************************************************************************)
(* Model of buzzdb::BufferManager / buzzdb::BufferFrame                    *)
(* (src/include/buffer/buffer_manager.h).                                  *)
(*                                                                         *)
(* Threads call fix_page / unfix_page concurrently.  Every statement that  *)
(* runs while a thread owns managerMutex and queueMutex is one step (no    *)
(* other thread can touch the map, the queues or the pin counts then);     *)
(* everything fix_page does after it has released the pool locks           *)
(* (pageMutex acquisition, the store to mIsExclusive, readDisk) is a step  *)
(* of its own.                                                             *)
(*                                                                         *)
(* A BufferFrame is identified by the page id it was created for: the      *)
(* frame of an evicted page is erased from bufferMapping without being     *)
(* deleted and nothing refers to it any more, so when the same page id is  *)
(* loaded again the fields of its (new) frame start from the constructor's *)
(* values.                                                                 *)
(***************************************************************************)
EXTENDS Integers, Sequences, FiniteSets, TLC

\* ------------------------------------------------------------------ bounds
NumThreads == 2
NumPages == 2
MaxByte == 1
\* constructor arguments of the pool under test
PageCount == 1
PageSize == 2

Threads == 1..NumThreads
PageIds == 1..NumPages
\* bytes callers store into a page (segment files start zero-filled)
Stores == 1..MaxByte
None == -1

VARIABLES
    \* BufferManager
    pageCount,       \* size_t pageCount, set by the constructor
    bufferMapping,   \* keys of std::map<uint64_t, BufferFrame*>
    fifoQueue,       \* std::vector<uint64_t>
    lruQueue,        \* std::vector<uint64_t>
    managerMutex,    \* owner of managerMutex, or None
    queueMutex,      \* owner of queueMutex, or None
    \* BufferFrame, by page id
    counter,
    mIsExclusive,
    mIsDirty,
    data,
    pageMutex,       \* [writer: BOOLEAN, readers: Nat]
    \* segment files, by <<segment id, byte offset>>
    disk,
    \* callers
    pc,
    page_id,         \* argument of fix_page / pageId of the frame passed to unfix_page
    exclusive,       \* argument of fix_page
    is_dirty,        \* argument of unfix_page
    destroyed,       \* ~BufferManager has run
    \* history
    io,              \* page ids whose write_block ran in the latest step
    declared,        \* page ids unfixed with is_dirty = true and not written back since
    hist             \* per page id: latest bytes a caller stored, and whether the page was evicted since

vars == <<pageCount, bufferMapping, fifoQueue, lruQueue, managerMutex, queueMutex,
          counter, mIsExclusive, mIsDirty, data, pageMutex, disk,
          pc, page_id, exclusive, is_dirty, destroyed, io, declared, hist>>

pool == <<pageCount, bufferMapping, fifoQueue, lruQueue>>
locks == <<managerMutex, queueMutex>>
frames == <<counter, mIsExclusive, mIsDirty, data, pageMutex>>
args == <<page_id, exclusive, is_dirty>>

\* ------------------------------------------------------- pure helpers
Pow2_24 == 16777216

\* page_id >> 48
get_segment_id(p) == (p \div Pow2_24) \div Pow2_24

\* page_id & ((1ull << 48) - 1)
get_segment_page_id(p) == (p % Pow2_24) + Pow2_24 * ((p \div Pow2_24) % Pow2_24)

\* file name and offset used by readDisk / writeDisk
DiskLoc(p) == <<get_segment_id(p), get_segment_page_id(p) * PageSize>>

DiskLocs == {DiskLoc(p) : p \in PageIds}

\* std::find + vector::erase of one id (first occurrence)
RECURSIVE Erase(_, _)
Erase(q, id) ==
    IF q = <<>> THEN <<>>
    ELSE IF Head(q) = id THEN Tail(q)
    ELSE <<Head(q)>> \o Erase(Tail(q), id)

\* vector::erase(begin() + i), i counted from 0
EraseAt(q, i) == [k \in 1..(Len(q) - 1) |-> IF k <= i THEN q[k] ELSE q[k + 1]]

InQueue(q, id) == \E k \in 1..Len(q) : q[k] = id

Count(q, id) == Cardinality({k \in 1..Len(q) : q[k] = id})

\* fields of a frame right after `new BufferFrame(page_id, pageSize)`
FreshMutex == [writer |-> FALSE, readers |-> 0]


\* `new BufferFrame(page_id, pageSize)` followed by incCounter(), for page id p
NewFrame(p) ==
    /\ counter' = [counter EXCEPT ![p] = 1]
    /\ mIsExclusive' = [mIsExclusive EXCEPT ![p] = FALSE]
    /\ mIsDirty' = [mIsDirty EXCEPT ![p] = FALSE]
    /\ data' = [data EXCEPT ![p] = 0]
    /\ pageMutex' = [pageMutex EXCEPT ![p] = FreshMutex]

\* slip: the scan runs from the tail of the queue
FirstUnpinned_FromTail(q) ==
    IF \E k \in 1..Len(q) : counter[q[k]] = 0
    THEN (CHOOSE k \in 1..Len(q) :
              /\ counter[q[k]] = 0
              /\ \A j \in (k + 1)..Len(q) : counter[q[j]] # 0) - 1
    ELSE -1

\* slip: the scan does not look at the pin count
FirstUnpinned_AnyPin(q) == IF Len(q) > 0 THEN 0 ELSE -1

\* scan of getPageIndexToRemove: index (from 0) of the first queue entry
\* whose frame has counter 0, or -1
FirstUnpinned(q) ==
    IF \E k \in 1..Len(q) : counter[q[k]] = 0
    THEN (CHOOSE k \in 1..Len(q) :
              /\ counter[q[k]] = 0
              /\ \A j \in 1..(k - 1) : counter[q[j]] # 0) - 1
    ELSE -1

\* slip: both branches scan the FIFO queue
getPageIndexToRemove_FifoOnly(isFifo) == FirstUnpinned(fifoQueue)

getPageIndexToRemove(isFifo) ==
    IF isFifo THEN FirstUnpinned(fifoQueue) ELSE FirstUnpinned(lruQueue)

\* slip: a shared request does not wait for the writer
CanLock_SharedNoWait(m, excl) ==
    IF excl THEN ~m.writer /\ m.readers = 0 ELSE TRUE

\* std::shared_mutex::lock / lock_shared can return
CanLock(m, excl) ==
    IF excl THEN ~m.writer /\ m.readers = 0 ELSE ~m.writer

Locked(m, excl) ==
    IF excl THEN [m EXCEPT !.writer = TRUE]
    ELSE [m EXCEPT !.readers = m.readers + 1]

\* std::shared_mutex::unlock (excl) / unlock_shared (~excl).  Releasing a
\* mutex in a mode in which it is not held is undefined: the mutex may stay
\* as it is, lose the ownership that is held, or lose all ownership.
Unlocked(m, excl) ==
    IF excl /\ m.writer THEN {[m EXCEPT !.writer = FALSE]}
    ELSE IF ~excl /\ m.readers > 0 THEN {[m EXCEPT !.readers = m.readers - 1]}
    ELSE {m, FreshMutex,
          IF m.writer THEN [m EXCEPT !.writer = FALSE]
          ELSE IF m.readers > 0 THEN [m EXCEPT !.readers = m.readers - 1]
          ELSE m}

\* ------------------------------------------------------------------- Init
Init ==
    /\ pageCount = PageCount
    /\ bufferMapping = {}
    /\ fifoQueue = <<>>
    /\ lruQueue = <<>>
    /\ managerMutex = None
    /\ queueMutex = None
    /\ counter = [p \in PageIds |-> 0]
    /\ mIsExclusive = [p \in PageIds |-> FALSE]
    /\ mIsDirty = [p \in PageIds |-> FALSE]
    /\ data = [p \in PageIds |-> 0]
    /\ pageMutex = [p \in PageIds |-> FreshMutex]
    /\ disk = [l \in DiskLocs |-> 0]
    /\ pc = [t \in Threads |-> "idle"]
    /\ page_id = [t \in Threads |-> None]
    /\ exclusive = [t \in Threads |-> FALSE]
    /\ is_dirty = [t \in Threads |-> FALSE]
    /\ destroyed = FALSE
    /\ io = {}
    /\ declared = {}
    /\ hist = [p \in PageIds |-> [val |-> None, evicted |-> FALSE]]

\* ---------------------------------------------------------------- fix_page
\* a caller enters fix_page(p, e)
FixCall(t, p, e) ==
    /\ pc[t] = "idle"
    /\ ~destroyed
    /\ pc' = [pc EXCEPT ![t] = "fix_lockM"]
    /\ page_id' = [page_id EXCEPT ![t] = p]
    /\ exclusive' = [exclusive EXCEPT ![t] = e]
    /\ io' = {}
    /\ UNCHANGED <<pool, locks, frames, disk, is_dirty, destroyed, declared, hist>>

\* managerMutex.lock()
FixLockManager(t) ==
    /\ pc[t] = "fix_lockM"
    /\ managerMutex = None
    /\ managerMutex' = t
    /\ pc' = [pc EXCEPT ![t] = "fix_lockQ"]
    /\ io' = {}
    /\ UNCHANGED <<pool, queueMutex, frames, disk, args, destroyed, declared, hist>>

\* queueMutex.lock()
FixLockQueue(t) ==
    /\ pc[t] = "fix_lockQ"
    /\ queueMutex = None
    /\ queueMutex' = t
    /\ pc' = [pc EXCEPT ![t] = "fix_body"]
    /\ io' = {}
    /\ UNCHANGED <<pool, managerMutex, frames, disk, args, destroyed, declared, hist>>

\* slip: managerMutex.unlock() is left out
ReleasePool_QueueOnly ==
    /\ queueMutex' = None
    /\ managerMutex' = managerMutex

\* queueMutex.unlock(); managerMutex.unlock()
ReleasePool ==
    /\ queueMutex' = None
    /\ managerMutex' = None

\* slip: a page that is already in lruQueue stays at its place
FixHit_NoRefresh(t) ==
    LET p == page_id[t] IN
    /\ pc[t] = "fix_body"
    /\ p \in bufferMapping
    /\ counter' = [counter EXCEPT ![p] = @ + 1]
    /\ IF InQueue(lruQueue, p)
       THEN /\ lruQueue' = lruQueue
            /\ fifoQueue' = fifoQueue
       ELSE /\ fifoQueue' = Erase(fifoQueue, p)
            /\ lruQueue' = Append(lruQueue, p)
    /\ ReleasePool
    /\ pc' = [pc EXCEPT ![t] = "hit_lock"]
    /\ io' = {}
    /\ UNCHANGED <<pageCount, bufferMapping, mIsExclusive, mIsDirty, data, pageMutex,
                   disk, args, destroyed, declared, hist>>

\* slip: the pool locks are kept while the frame lock is taken
FixHit_HoldPool(t) ==
    LET p == page_id[t] IN
    /\ pc[t] = "fix_body"
    /\ p \in bufferMapping
    /\ counter' = [counter EXCEPT ![p] = @ + 1]
    /\ IF InQueue(lruQueue, p)
       THEN /\ lruQueue' = Append(Erase(lruQueue, p), p)
            /\ fifoQueue' = fifoQueue
       ELSE /\ fifoQueue' = Erase(fifoQueue, p)
            /\ lruQueue' = Append(lruQueue, p)
    /\ pc' = [pc EXCEPT ![t] = "hit_lock"]
    /\ io' = {}
    /\ UNCHANGED <<pageCount, bufferMapping, mIsExclusive, mIsDirty, data, pageMutex,
                   disk, args, destroyed, declared, hist, locks>>

\* bufferContainsPage: updateExistingPage up to the release of the pool locks
FixHit(t) ==
    LET p == page_id[t] IN
    /\ pc[t] = "fix_body"
    /\ p \in bufferMapping
    /\ counter' = [counter EXCEPT ![p] = @ + 1]
    /\ IF InQueue(lruQueue, p)
       THEN /\ lruQueue' = Append(Erase(lruQueue, p), p)
            /\ fifoQueue' = fifoQueue
       ELSE /\ fifoQueue' = Erase(fifoQueue, p)
            /\ lruQueue' = Append(lruQueue, p)
    /\ ReleasePool
    /\ pc' = [pc EXCEPT ![t] = "hit_lock"]
    /\ io' = {}
    /\ UNCHANGED <<pageCount, bufferMapping, mIsExclusive, mIsDirty, data, pageMutex,
                   disk, args, destroyed, declared, hist>>

\* !bufferIsFull: addNewPage up to the release of the pool locks
FixAdd(t) ==
    LET p == page_id[t] IN
    /\ pc[t] = "fix_body"
    /\ p \notin bufferMapping
    /\ Cardinality(bufferMapping) # pageCount
    /\ NewFrame(p)
    /\ bufferMapping' = bufferMapping \cup {p}
    /\ fifoQueue' = Append(fifoQueue, p)
    /\ ReleasePool
    /\ pc' = [pc EXCEPT ![t] = "miss_lock"]
    /\ io' = {}
    /\ hist' = hist
    /\ UNCHANGED <<pageCount, lruQueue, disk, args, destroyed, declared>>

\* slip: the victim is not written
writeDisk_Skip(p) == disk' = disk

\* BufferFrame::writeDisk of the frame of page id p
writeDisk(p) == disk' = [disk EXCEPT ![DiskLoc(p)] = data[p]]

\* getPageIndexToRemove (with its writeDisk) and removePage up to the release
\* of the pool locks.  The victim's frame is erased from the map and not
\* deleted; its fields go back to the constructor's values here.
FixEvict(t) ==
    LET p == page_id[t]
        fifoToRemove == getPageIndexToRemove(TRUE)
        lruToRemove == getPageIndexToRemove(FALSE)
        isFifo == fifoToRemove # -1
        indexToRemove == IF isFifo THEN fifoToRemove ELSE lruToRemove
        v == IF isFifo THEN fifoQueue[indexToRemove + 1]
             ELSE lruQueue[indexToRemove + 1]
    IN
    /\ pc[t] = "fix_body"
    /\ p \notin bufferMapping
    /\ Cardinality(bufferMapping) = pageCount
    /\ fifoToRemove # -1 \/ lruToRemove # -1
    \* tempPage->writeDisk()
    /\ writeDisk(v)
    /\ io' = {v}
    \* removePage
    /\ bufferMapping' = (bufferMapping \ {v}) \cup {p}
    /\ IF isFifo
       THEN /\ fifoQueue' = Append(EraseAt(fifoQueue, indexToRemove), p)
            /\ lruQueue' = lruQueue
       ELSE /\ lruQueue' = EraseAt(lruQueue, indexToRemove)
            /\ fifoQueue' = Append(fifoQueue, p)
    /\ counter' = [counter EXCEPT ![v] = 0, ![p] = 1]
    /\ mIsExclusive' = [mIsExclusive EXCEPT ![v] = FALSE, ![p] = FALSE]
    /\ mIsDirty' = [mIsDirty EXCEPT ![v] = FALSE, ![p] = FALSE]
    /\ data' = [data EXCEPT ![v] = 0, ![p] = 0]
    /\ pageMutex' = [pageMutex EXCEPT ![v] = FreshMutex, ![p] = FreshMutex]
    /\ ReleasePool
    /\ pc' = [pc EXCEPT ![t] = "miss_lock"]
    /\ declared' = declared \ {v}
    /\ hist' = [hist EXCEPT ![v].evicted = (hist[v].val # None)]
    /\ UNCHANGED <<pageCount, args, destroyed>>

\* no victim: release the pool locks and throw buffer_full_error
FixFull(t) ==
    /\ pc[t] = "fix_body"
    /\ page_id[t] \notin bufferMapping
    /\ Cardinality(bufferMapping) = pageCount
    /\ getPageIndexToRemove(TRUE) = -1
    /\ getPageIndexToRemove(FALSE) = -1
    /\ ReleasePool
    /\ pc' = [pc EXCEPT ![t] = "threw"]
    /\ io' = {}
    /\ UNCHANGED <<pool, frames, disk, args, destroyed, declared, hist>>

\* the caller has caught buffer_full_error
FixFailed(t) ==
    /\ pc[t] = "threw"
    /\ pc' = [pc EXCEPT ![t] = "idle"]
    /\ page_id' = [page_id EXCEPT ![t] = None]
    /\ exclusive' = [exclusive EXCEPT ![t] = FALSE]
    /\ io' = {}
    /\ UNCHANGED <<pool, locks, frames, disk, is_dirty, destroyed, declared, hist>>

\* lockPage: pageMutex.lock() / pageMutex.lock_shared() returns
LockPageAcquire(t) ==
    LET p == page_id[t] IN
    /\ pc[t] \in {"hit_lock", "miss_lock"}
    /\ CanLock(pageMutex[p], exclusive[t])
    /\ pageMutex' = [pageMutex EXCEPT ![p] = Locked(@, exclusive[t])]
    /\ pc' = [pc EXCEPT ![t] = IF pc[t] = "hit_lock" THEN "hit_flag" ELSE "miss_flag"]
    /\ io' = {}
    /\ UNCHANGED <<pool, locks, counter, mIsExclusive, mIsDirty, data, disk,
                   args, destroyed, declared, hist>>

\* slip: lockPage does not record the mode
LockPageFlag_NoStore(t) ==
    /\ pc[t] \in {"hit_flag", "miss_flag"}
    /\ pc' = [pc EXCEPT ![t] = IF pc[t] = "hit_flag" THEN "held" ELSE "miss_read"]
    /\ io' = {}
    /\ UNCHANGED <<pool, locks, frames, disk, args, destroyed, declared, hist>>

\* lockPage: mIsExclusive = exclusive
LockPageFlag(t) ==
    LET p == page_id[t] IN
    /\ pc[t] \in {"hit_flag", "miss_flag"}
    /\ mIsExclusive' = [mIsExclusive EXCEPT ![p] = exclusive[t]]
    /\ pc' = [pc EXCEPT ![t] = IF pc[t] = "hit_flag" THEN "held" ELSE "miss_read"]
    /\ io' = {}
    /\ UNCHANGED <<pool, locks, counter, mIsDirty, data, pageMutex, disk,
                   args, destroyed, declared, hist>>

\* pFrame->readDisk() of addNewPage / removePage, then return *pFrame
ReadDisk(t) ==
    LET p == page_id[t] IN
    /\ pc[t] = "miss_read"
    /\ data' = [data EXCEPT ![p] = disk[DiskLoc(p)]]
    /\ pc' = [pc EXCEPT ![t] = "held"]
    /\ io' = {}
    /\ UNCHANGED <<pool, locks, counter, mIsExclusive, mIsDirty, pageMutex, disk,
                   args, destroyed, declared, hist>>

\* ----------------------------------------------------------------- callers
\* the holder of an exclusive fix stores b through get_data() and then
\* enters unfix_page(frame, true)
UserWrite(t, b) ==
    LET p == page_id[t] IN
    /\ pc[t] = "held"
    /\ exclusive[t]
    /\ data' = [data EXCEPT ![p] = b]
    /\ hist' = [hist EXCEPT ![p] = [val |-> b, evicted |-> FALSE]]
    /\ is_dirty' = [is_dirty EXCEPT ![t] = TRUE]
    /\ pc' = [pc EXCEPT ![t] = "unfix_lockM"]
    /\ io' = {}
    /\ UNCHANGED <<pool, locks, counter, mIsExclusive, mIsDirty, pageMutex, disk,
                   page_id, exclusive, destroyed, declared>>

\* a holder that did not store anything enters unfix_page(frame, d)
UnfixCall(t, d) ==
    /\ pc[t] = "held"
    /\ is_dirty' = [is_dirty EXCEPT ![t] = d]
    /\ pc' = [pc EXCEPT ![t] = "unfix_lockM"]
    /\ io' = {}
    /\ UNCHANGED <<pool, locks, frames, disk, page_id, exclusive, destroyed,
                   declared, hist>>

\* -------------------------------------------------------------- unfix_page
\* std::unique_lock managerLock(managerMutex)
UnfixLockManager(t) ==
    /\ pc[t] = "unfix_lockM"
    /\ managerMutex = None
    /\ managerMutex' = t
    /\ pc' = [pc EXCEPT ![t] = "unfix_lockQ"]
    /\ io' = {}
    /\ UNCHANGED <<pool, queueMutex, frames, disk, args, destroyed, declared, hist>>

\* std::unique_lock queueLock(queueMutex)
UnfixLockQueue(t) ==
    /\ pc[t] = "unfix_lockQ"
    /\ queueMutex = None
    /\ queueMutex' = t
    /\ pc' = [pc EXCEPT ![t] = "unfix_body"]
    /\ io' = {}
    /\ UNCHANGED <<pool, managerMutex, frames, disk, args, destroyed, declared, hist>>

\* BufferFrame::unlockPage(d) on the frame of page id p: mIsDirty = is_dirty,
\* then unlock() or unlock_shared() as mIsExclusive says.  mIsExclusive is
\* stored by lockPage outside the pool locks; a load that races with such a
\* store sees the value before or after it, which is what the interleaving of
\* LockPageFlag and UnfixBody gives.
unlockPage(p, d) ==
    /\ mIsDirty' = [mIsDirty EXCEPT ![p] = d]
    /\ \E m \in Unlocked(pageMutex[p], mIsExclusive[p]) :
           pageMutex' = [pageMutex EXCEPT ![p] = m]

\* slip: the id found in lruQueue is left where it is
UnfixQueue_NoMove(p) == lruQueue

\* slip: push_back without the check that the id was found in lruQueue
UnfixQueue_NoFind(p) == Append(Erase(lruQueue, p), p)

\* the LRU part of unfix_page
UnfixQueue(p) ==
    IF InQueue(lruQueue, p) THEN Append(Erase(lruQueue, p), p) ELSE lruQueue

\* body of unfix_page on the frame of page id page_id[t]
UnfixEffects(t) ==
    LET p == page_id[t] IN
    /\ counter' = [counter EXCEPT ![p] = @ - 1]
    /\ unlockPage(p, is_dirty[t])
    /\ lruQueue' = UnfixQueue(p)
    /\ declared' = IF is_dirty[t] THEN declared \cup {p} ELSE declared
    /\ io' = {}
    /\ UNCHANGED <<pageCount, bufferMapping, fifoQueue, mIsExclusive, data, disk,
                   destroyed, hist>>

\* body of unfix_page and the release of both unique_locks on return
UnfixBody(t) ==
    /\ pc[t] = "unfix_body"
    /\ UnfixEffects(t)
    /\ ReleasePool
    /\ pc' = [pc EXCEPT ![t] = "idle"]
    /\ page_id' = [page_id EXCEPT ![t] = None]
    /\ exclusive' = [exclusive EXCEPT ![t] = FALSE]
    /\ is_dirty' = [is_dirty EXCEPT ![t] = FALSE]

\* no pin count has gone below zero
NoUnderflow == \A p \in PageIds : counter[p] >= 0

\* a caller that holds the only pin of a frame runs unfix_page, and calls
\* unfix_page a second time with the same frame and flag, taking both pool
\* locks again before any other thread does
UnfixAgain(t) ==
    /\ pc[t] = "unfix_body"
    /\ counter[page_id[t]] = 1
    /\ NoUnderflow
    /\ UnfixEffects(t)
    /\ UNCHANGED <<locks, pc, args>>

\* --------------------------------------------------------- ~BufferManager
\* runs once every fix has been released
Destroy ==
    /\ ~destroyed
    /\ \A t \in Threads : pc[t] = "idle"
    /\ managerMutex = None /\ queueMutex = None
    /\ disk' = [l \in DOMAIN disk |->
                  IF \E p \in bufferMapping : mIsDirty[p] /\ DiskLoc(p) = l
                  THEN data[CHOOSE p \in bufferMapping : mIsDirty[p] /\ DiskLoc(p) = l]
                  ELSE disk[l]]
    /\ io' = {p \in bufferMapping : mIsDirty[p]}
    /\ destroyed' = TRUE
    /\ UNCHANGED <<pool, locks, frames, pc, args, declared, hist>>

\* ------------------------------------------------------------------- Next
Next ==
    \/ \E t \in Threads, p \in PageIds, e \in BOOLEAN : FixCall(t, p, e)
    \/ \E t \in Threads : FixLockManager(t)
    \/ \E t \in Threads : FixLockQueue(t)
    \/ \E t \in Threads : FixHit(t)
    \/ \E t \in Threads : FixAdd(t)
    \/ \E t \in Threads : FixEvict(t)
    \/ \E t \in Threads : FixFull(t)
    \/ \E t \in Threads : FixFailed(t)
    \/ \E t \in Threads : LockPageAcquire(t)
    \/ \E t \in Threads : LockPageFlag(t)
    \/ \E t \in Threads : ReadDisk(t)
    \/ \E t \in Threads, b \in Stores : UserWrite(t, b)
    \/ \E t \in Threads, d \in BOOLEAN : UnfixCall(t, d)
    \/ \E t \in Threads : UnfixLockManager(t)
    \/ \E t \in Threads : UnfixLockQueue(t)
    \/ \E t \in Threads : UnfixBody(t)
    \/ Destroy

Spec == Init /\ [][Next]_vars

\* callers that may also unfix a frame twice; the pool is followed up to the
\* first pin count below zero
NextMisuse ==
    \/ NoUnderflow /\ Next
    \/ \E t \in Threads : UnfixAgain(t)

SpecMisuse == Init /\ [][NextMisuse]_vars

\* -------------------------------------------- a pool of more than one frame
\* The queue order only shows in a pool of several frames.  Callers fix in
\* shared mode and unfix clean; page ids, pool size and threads are one more
\* than in Spec where the interleavings allow it.
OrderPageIds == 1..(NumPages + 1)
OrderPageCount == PageCount + 1
OrderThreads == 1..(NumThreads + 1)

InitOrder ==
    /\ pageCount = OrderPageCount
    /\ bufferMapping = {}
    /\ fifoQueue = <<>>
    /\ lruQueue = <<>>
    /\ managerMutex = None
    /\ queueMutex = None
    /\ counter = [p \in OrderPageIds |-> 0]
    /\ mIsExclusive = [p \in OrderPageIds |-> FALSE]
    /\ mIsDirty = [p \in OrderPageIds |-> FALSE]
    /\ data = [p \in OrderPageIds |-> 0]
    /\ pageMutex = [p \in OrderPageIds |-> FreshMutex]
    /\ disk = [l \in {DiskLoc(p) : p \in OrderPageIds} |-> 0]
    /\ pc = [t \in OrderThreads |-> "idle"]
    /\ page_id = [t \in OrderThreads |-> None]
    /\ exclusive = [t \in OrderThreads |-> FALSE]
    /\ is_dirty = [t \in OrderThreads |-> FALSE]
    /\ destroyed = FALSE
    /\ io = {}
    /\ declared = {}
    /\ hist = [p \in OrderPageIds |-> [val |-> None, evicted |-> FALSE]]

NextOrder ==
    \/ \E t \in OrderThreads, p \in OrderPageIds : FixCall(t, p, FALSE)
    \/ \E t \in OrderThreads : FixLockManager(t)
    \/ \E t \in OrderThreads : FixLockQueue(t)
    \/ \E t \in OrderThreads : FixHit(t)
    \/ \E t \in OrderThreads : FixAdd(t)
    \/ \E t \in OrderThreads : FixEvict(t)
    \/ \E t \in OrderThreads : FixFull(t)
    \/ \E t \in OrderThreads : FixFailed(t)
    \/ \E t \in OrderThreads : LockPageAcquire(t)
    \/ \E t \in OrderThreads : LockPageFlag(t)
    \/ \E t \in OrderThreads : ReadDisk(t)
    \/ \E t \in OrderThreads : UnfixCall(t, FALSE)
    \/ \E t \in OrderThreads : UnfixLockManager(t)
    \/ \E t \in OrderThreads : UnfixLockQueue(t)
    \/ \E t \in OrderThreads : UnfixBody(t)

SpecOrder == InitOrder /\ [][NextOrder]_vars

\* ------------------------------------------------------ states of a caller
\* between the return of fix_page and the return of the matching unfix_page
Window == {"held", "unfix_lockM", "unfix_lockQ", "unfix_body"}

\* fix_page has pinned the frame and has not returned yet
Returning == {"hit_lock", "hit_flag", "miss_lock", "miss_flag", "miss_read"}

Pinned(t) == pc[t] \in Window \cup Returning

PoolUnlocked == managerMutex = None /\ queueMutex = None

\* ------------------------------------------------------------------ claims

\* C1: whenever no thread holds the pool locks, the map has at most pageCount
\* keys, no id is in both queues, every queued id is a key of the map and
\* every key of the map occurs exactly once in exactly one queue.
C1_PoolStructure ==
    PoolUnlocked =>
        /\ Cardinality(bufferMapping) <= pageCount
        /\ \A p \in PageIds : ~(InQueue(fifoQueue, p) /\ InQueue(lruQueue, p))
        /\ \A k \in 1..Len(fifoQueue) : fifoQueue[k] \in bufferMapping
        /\ \A k \in 1..Len(lruQueue) : lruQueue[k] \in bufferMapping
        /\ \A p \in bufferMapping : Count(fifoQueue, p) + Count(lruQueue, p) = 1

\* a promoted page sits in the LRU queue after an eviction has happened and
\* another caller is about to unfix a frame
C1_Witness ==
    /\ PoolUnlocked
    /\ Len(lruQueue) = 1
    /\ \E p \in PageIds : hist[p].evicted
    /\ \E t \in Threads : pc[t] = "idle"

\* C2: a victim chosen by fix_page has pin count zero and no caller refers to
\* it, so the frame of every caller that has been pinned and has not finished
\* its unfix_page is in the map under its page id with a positive pin count.
C2_PinnedNeverEvicted ==
    /\ [](\A t \in Threads : Pinned(t) =>
              /\ page_id[t] \in bufferMapping
              /\ counter[page_id[t]] >= 1)
    /\ [][\A v \in io' : ~destroyed' =>
              /\ counter[v] = 0
              /\ \A t \in Threads : Pinned(t) => page_id[t] # v]_vars

\* a victim has just been written and replaced while a caller waits for the
\* pool lock to fix the victim's page id
C2_Witness ==
    /\ io # {}
    /\ ~destroyed
    /\ \E t \in Threads : pc[t] = "fix_lockM" /\ page_id[t] \in io
    /\ \E t \in Threads : pc[t] = "miss_lock"

\* C3: while a caller is between the return of fix_page(p, true) and the
\* return of its unfix_page, no other caller is in such a window on p or
\* holds p's frame lock for a disk read, and p is not written out by an
\* eviction or by the destructor.
C3_ExclusiveWindow ==
    \A t \in Threads :
        (pc[t] \in Window /\ exclusive[t]) =>
            /\ \A u \in Threads \ {t} :
                   page_id[u] = page_id[t] => pc[u] \notin Window \cup {"miss_read"}
            /\ page_id[t] \notin io

\* an exclusive holder has stored into the page while the thread that loads
\* the page still waits for the frame lock
C3_Witness ==
    \E t, u \in Threads :
        /\ t # u
        /\ pc[t] = "unfix_body" /\ exclusive[t] /\ is_dirty[t]
        /\ page_id[u] = page_id[t]
        /\ pc[u] = "miss_lock"

\* every resident frame is pinned and p is not resident in a full map
BufferFull(p) ==
    /\ p \notin bufferMapping
    /\ Cardinality(bufferMapping) = pageCount
    /\ \A q \in bufferMapping : counter[q] # 0

\* C4: the step fix_page takes under the pool locks throws buffer_full_error
\* exactly when the page is not resident, the map is full and every resident
\* frame is pinned; the throwing step changes neither map, queues, pin
\* counts, dirty flags nor disk, and leaves both pool locks free.
C4_BufferFullError ==
    [][\A t \in Threads :
          (pc[t] = "fix_body" /\ pc'[t] # "fix_body") =>
              /\ (pc'[t] = "threw") <=> BufferFull(page_id[t])
              /\ (pc'[t] = "threw") =>
                     /\ UNCHANGED <<bufferMapping, fifoQueue, lruQueue, counter,
                                    mIsDirty, disk>>
                     /\ managerMutex' = None
                     /\ queueMutex' = None]_vars

\* buffer_full_error is propagating to a caller while the only frame is held
C4_Witness ==
    \E t, u \in Threads :
        /\ pc[t] = "threw"
        /\ pc[u] = "held"
        /\ PoolUnlocked
        /\ page_id[u] \in bufferMapping


\* C5: when a page whose latest stored bytes were unfixed dirty has been
\* evicted since, the fix_page that loads it again returns those bytes.
C5_RoundTrip ==
    [][\A t \in Threads :
          (pc[t] = "miss_read" /\ pc'[t] = "held" /\ hist[page_id[t]].evicted) =>
              data'[page_id[t]] = hist[page_id[t]].val]_vars

\* C6: as long as a page stays resident, its frame holds the bytes that the
\* latest exclusive holder stored.
C6_StoresSurvive ==
    \A p \in bufferMapping :
        (hist[p].val # None /\ ~hist[p].evicted) => data[p] = hist[p].val

\* C7: the destructor writes every resident page that was unfixed with
\* is_dirty = true and not written back since.
C7_DestructorFlushes ==
    destroyed => (declared \cap bufferMapping) \subseteq io

\* C8: a resident frame that was unfixed with is_dirty = true and not written
\* back since has its dirty flag set.
C8_DirtyMonotonic ==
    \A p \in bufferMapping \cap declared : mIsDirty[p]

\* C9: no pin count is ever negative, also when a caller unfixes a frame
\* whose pin count is zero.
C9_PinNonNegative ==
    \A p \in PageIds : counter[p] >= 0

\* number of owners of a frame's pageMutex
Holders(p) == pageMutex[p].readers + (IF pageMutex[p].writer THEN 1 ELSE 0)

\* C10: for a resident frame on which no fix_page is between its pin and its
\* return, the owners of pageMutex are as many as the pin count and as many
\* as the callers between fix_page's return and unfix_page's return; a
\* writer excludes readers; and for each such caller the mutex is owned in
\* the mode it asked for and mIsExclusive, which selects unlock() or
\* unlock_shared() in unfix_page, is that mode.
C10_LockMatchesPins ==
    \A p \in bufferMapping :
        LET win == {t \in Threads : page_id[t] = p /\ pc[t] \in Window}
            returning == {t \in Threads : page_id[t] = p /\ pc[t] \in Returning}
        IN
        /\ returning = {} =>
               /\ Holders(p) = counter[p]
               /\ counter[p] = Cardinality(win)
        /\ pageMutex[p].writer => pageMutex[p].readers = 0
        /\ \A t \in win :
               /\ mIsExclusive[p] = exclusive[t]
               /\ pageMutex[p].writer = exclusive[t]

\* two shared holders of one frame, one of them inside unfix_page
C10_Witness ==
    \E p \in bufferMapping, t \in Threads :
        /\ pageMutex[p].readers = 2
        /\ counter[p] = 2
        /\ page_id[t] = p
        /\ pc[t] = "unfix_body"


\* queue q without id
Without(q, id) == SelectSeq(q, LAMBDA x : x # id)

\* C11: the step of fix_page under the pool locks puts a missed page at the
\* FIFO tail (whatever queue the victim came from), moves a hit page that is
\* in FIFO to the LRU tail, moves a hit page that is in LRU to the LRU tail
\* and leaves the other queue alone; no step moves an id from LRU to FIFO.
C11_QueueTransitions ==
    [][/\ \A t \in OrderThreads :
              LET p == page_id[t] IN
              (pc[t] = "fix_body" /\ pc'[t] # "fix_body") =>
                  /\ pc'[t] = "miss_lock" =>
                         /\ Len(fifoQueue') >= 1
                         /\ fifoQueue'[Len(fifoQueue')] = p
                         /\ ~InQueue(lruQueue', p)
                  /\ (pc'[t] = "hit_lock" /\ InQueue(fifoQueue, p)) =>
                         /\ fifoQueue' = Without(fifoQueue, p)
                         /\ lruQueue' = lruQueue \o <<p>>
                  /\ (pc'[t] = "hit_lock" /\ InQueue(lruQueue, p)) =>
                         /\ fifoQueue' = fifoQueue
                         /\ lruQueue' = Without(lruQueue, p) \o <<p>>
       /\ \A q \in OrderPageIds :
              InQueue(lruQueue, q) => ~InQueue(fifoQueue', q)]_vars

\* a hit has just moved a page from the head of a two-entry LRU queue to
\* its tail
C11_Witness ==
    \E t \in OrderThreads :
        /\ pc[t] = "hit_lock"
        /\ Len(lruQueue) = 2
        /\ lruQueue[2] = page_id[t]
        /\ counter[page_id[t]] = 1
        /\ counter[lruQueue[1]] = 0

\* C12: the victim of a miss on a full pool has pin count zero; if it is in
\* FIFO every entry before it in FIFO is pinned; if it is in LRU every FIFO
\* entry and every entry before it in LRU is pinned; all other ids keep their
\* queue and their relative order and the new id goes to the FIFO tail.
C12_VictimOrder ==
    [][\A t \in OrderThreads : \A v \in bufferMapping \ bufferMapping' :
          (pc[t] = "fix_body" /\ pc'[t] = "miss_lock") =>
              /\ counter[v] = 0
              /\ \A k \in 1..Len(fifoQueue) :
                     (\A j \in 1..k : fifoQueue[j] # v) => counter[fifoQueue[k]] # 0
              /\ InQueue(lruQueue, v) =>
                     \A k \in 1..Len(lruQueue) :
                         (\A j \in 1..k : lruQueue[j] # v) => counter[lruQueue[k]] # 0
              /\ fifoQueue' = Without(fifoQueue, v) \o <<page_id[t]>>
              /\ lruQueue' = Without(lruQueue, v)]_vars

\* a victim has just been replaced while the page at the FIFO head, which
\* the scan had to skip, is pinned
C12_Witness ==
    /\ io # {}
    /\ Len(fifoQueue) = 2
    /\ counter[fifoQueue[1]] >= 1
    /\ \E t \in OrderThreads : pc[t] = "miss_lock" /\ page_id[t] = fifoQueue[2]
    /\ \E t \in OrderThreads : pc[t] = "held" /\ page_id[t] = fifoQueue[1]

\* C15: unfix_page moves a page that is in LRU to the LRU tail, keeping the
\* order of the other entries, and changes no queue when the page is in
\* FIFO; the map keeps its keys, and only the unfixed frame's pin count (one
\* less), dirty flag and lock change.
C15_UnfixEffect ==
    [][\A t \in OrderThreads :
          LET p == page_id[t] IN
          (pc[t] = "unfix_body" /\ pc'[t] = "idle") =>
              /\ InQueue(lruQueue, p) =>
                     /\ lruQueue' = Without(lruQueue, p) \o <<p>>
                     /\ fifoQueue' = fifoQueue
              /\ InQueue(fifoQueue, p) =>
                     /\ lruQueue' = lruQueue
                     /\ fifoQueue' = fifoQueue
              /\ bufferMapping' = bufferMapping
              /\ counter' = [counter EXCEPT ![p] = counter[p] - 1]
              /\ \A q \in OrderPageIds \ {p} :
                     mIsDirty'[q] = mIsDirty[q] /\ pageMutex'[q] = pageMutex[q]
              /\ UNCHANGED <<data, mIsExclusive, disk>>]_vars

\* a caller is about to run the body of unfix_page on the page at the head
\* of a two-entry LRU queue
C15_Witness ==
    \E t \in OrderThreads :
        /\ pc[t] = "unfix_body"
        /\ Len(lruQueue) = 2
        /\ lruQueue[1] = page_id[t]


\* C13: a write_block happens only in the step of fix_page that replaces a
\* victim, or in the destructor, and only for a frame whose dirty flag is
\* set.
C13_CleanNoWrite ==
    [][/\ \A v \in io' : mIsDirty[v]
       /\ (io' # {} /\ ~destroyed') =>
              \E t \in Threads :
                  /\ pc[t] = "fix_body" /\ pc'[t] = "miss_lock"
                  /\ Cardinality(bufferMapping) = pageCount]_vars

\* C14: the step that removes a dirty page from the map is taken by a thread
\* that owns both pool locks while no other thread is inside fix_page's or
\* unfix_page's critical section, and it leaves the page's bytes at offset
\* (local page id * page size) of its segment file and nothing else changed
\* on disk.
C14_FlushBeforeRemove ==
    [][\A v \in bufferMapping \ bufferMapping' :
          mIsDirty[v] =>
              /\ \E t \in Threads :
                     /\ pc[t] = "fix_body"
                     /\ managerMutex = t /\ queueMutex = t
                     /\ \A u \in Threads \ {t} : pc[u] \notin {"fix_body", "unfix_body"}
              /\ v \in io'
              /\ disk'[<<0, v * PageSize>>] = data[v]
              /\ \A l \in DOMAIN disk \ {<<0, v * PageSize>>} : disk'[l] = disk[l]]_vars

\* an eviction has just written stored bytes of a page to its place on disk
C14_Witness ==
    \E v \in io :
        /\ ~destroyed
        /\ v \notin bufferMapping
        /\ hist[v].evicted
        /\ hist[v].val = 1
        /\ disk[<<0, v * PageSize>>] = 1

\* the caller's fix_page missed and has not finished readDisk
Loading(t) == pc[t] \in {"miss_lock", "miss_flag", "miss_read"}

\* C16: the thread that loads a page owns the frame lock exclusively while
\* it reads the disk.
C16_LoadExclusive ==
    \A t \in Threads :
        pc[t] = "miss_read" =>
            /\ pageMutex[page_id[t]].writer
            /\ pageMutex[page_id[t]].readers = 0

\* C17: no caller is between the return of fix_page and its unfix_page on a
\* frame whose disk read has not finished.
C17_PublishAfterLoad ==
    \A t \in Threads :
        pc[t] \in Window =>
            \A u \in Threads : page_id[u] = page_id[t] => ~Loading(u)


\* read_block fails inside readDisk: the exception leaves readDisk,
\* addNewPage or removePage, and fix_page, none of which catches it; the pool
\* locks were released before, and nothing else is undone
ReadDiskFail(t) ==
    /\ pc[t] = "miss_read"
    /\ pc' = [pc EXCEPT ![t] = "io_error"]
    /\ io' = {}
    /\ UNCHANGED <<pool, locks, frames, disk, args, destroyed, declared, hist>>

\* the caller has caught the read error
FixIoFailed(t) ==
    /\ pc[t] = "io_error"
    /\ pc' = [pc EXCEPT ![t] = "idle"]
    /\ page_id' = [page_id EXCEPT ![t] = None]
    /\ exclusive' = [exclusive EXCEPT ![t] = FALSE]
    /\ io' = {}
    /\ UNCHANGED <<pool, locks, frames, disk, is_dirty, destroyed, declared, hist>>

NextIoFail ==
    \/ Next
    \/ \E t \in Threads : ReadDiskFail(t)
    \/ \E t \in Threads : FixIoFailed(t)

SpecIoFail == Init /\ [][NextIoFail]_vars

\* C18: when fix_page fails with a read error and no other thread uses the
\* page, the page is in neither the map nor a queue and its frame has no pin
\* and no lock.
C18_ReadFailureRolledBack ==
    \A t \in Threads :
        LET p == page_id[t] IN
        (pc[t] = "io_error" /\ \A u \in Threads \ {t} : page_id[u] # p) =>
            /\ p \notin bufferMapping
            /\ ~InQueue(fifoQueue, p)
            /\ ~InQueue(lruQueue, p)
            /\ counter[p] = 0
            /\ pageMutex[p] = FreshMutex


\* the places of fix_page and unfix_page at which the caller owns managerMutex
HoldsManager == {"fix_lockQ", "fix_body", "unfix_lockQ", "unfix_body"}

\* the places of fix_page and unfix_page at which the caller owns queueMutex
HoldsQueue == {"fix_body", "unfix_body"}

\* C20 (state part): queueMutex is owned only by the owner of managerMutex;
\* a thread owns managerMutex exactly from its lock of managerMutex to its
\* release and queueMutex exactly inside the critical section, so a thread
\* that waits for a frame lock, stores mIsExclusive or reads the disk owns
\* neither.
C20_LockPlaces ==
    /\ queueMutex # None => managerMutex = queueMutex
    /\ \A t \in Threads :
           /\ managerMutex = t <=> pc[t] \in HoldsManager
           /\ queueMutex = t <=> pc[t] \in HoldsQueue
           /\ pc[t] \in Returning => managerMutex # t /\ queueMutex # t

\* C20 (step part): a pool lock is taken only when free, managerMutex by a
\* thread that owns neither lock and queueMutex by the owner of
\* managerMutex; every way out of the critical section of fix_page (hit,
\* free-slot miss, eviction miss, buffer full) and of unfix_page gives up
\* both locks in that step; outside the destructor a disk write happens only
\* in the eviction step of the owner of both locks, and a disk read only in
\* a step of a thread that owns neither.
C20_LockSteps ==
    [][\A t \in Threads :
          /\ (managerMutex # t /\ managerMutex' = t) =>
                 managerMutex = None /\ queueMutex # t /\ queueMutex' # t
          /\ (queueMutex # t /\ queueMutex' = t) =>
                 queueMutex = None /\ managerMutex = t /\ managerMutex' = t
          /\ (pc[t] \in HoldsQueue /\ pc'[t] \notin HoldsQueue) =>
                 /\ managerMutex = t /\ queueMutex = t
                 /\ managerMutex' = None /\ queueMutex' = None
          /\ (managerMutex = t /\ managerMutex' # t) =>
                 pc[t] \in HoldsQueue /\ queueMutex' # t
          /\ (io' # {} /\ ~destroyed') =>
                 \E u \in Threads :
                     /\ pc[u] = "fix_body" /\ pc'[u] = "miss_lock"
                     /\ managerMutex = u /\ queueMutex = u
          /\ (pc[t] = "miss_read" /\ pc'[t] # "miss_read") =>
                 managerMutex # t /\ queueMutex # t]_vars

ThreadStep(t) ==
    \/ \E p \in PageIds, e \in BOOLEAN : FixCall(t, p, e)
    \/ FixLockManager(t)
    \/ FixLockQueue(t)
    \/ FixHit(t)
    \/ FixAdd(t)
    \/ FixEvict(t)
    \/ FixFull(t)
    \/ FixFailed(t)
    \/ LockPageAcquire(t)
    \/ LockPageFlag(t)
    \/ ReadDisk(t)
    \/ \E b \in Stores : UserWrite(t, b)
    \/ \E d \in BOOLEAN : UnfixCall(t, d)
    \/ UnfixLockManager(t)
    \/ UnfixLockQueue(t)
    \/ UnfixBody(t)

\* the pool while it is in use: the destructor has not run
NextRunning == \E t \in Threads : ThreadStep(t)

\* Every thread that can run does run: a thread that is not waiting takes its
\* next step, and a holder of a frame calls unfix_page.  std::mutex and
\* std::shared_mutex promise no order among waiters, so a lock operation that
\* can return only now and then may never return.
SpecFair ==
    /\ Init
    /\ [][NextRunning]_vars
    /\ \A t \in Threads : WF_vars(ThreadStep(t))

\* thread t is inside lock() or lock_shared() and the mutex is not available
Blocked(t) ==
    \/ pc[t] \in {"fix_lockM", "unfix_lockM"} /\ managerMutex # None
    \/ pc[t] \in {"fix_lockQ", "unfix_lockQ"} /\ queueMutex # None
    \/ pc[t] \in {"hit_lock", "miss_lock"}
          /\ ~CanLock(pageMutex[page_id[t]], exclusive[t])

\* thread t owns the lock of the frame of its page
HasFrameLock(t) == pc[t] \in {"hit_flag", "miss_flag", "miss_read"} \cup Window

====
